---- MODULE Spec2Model ----
(***************************************************************************)
(* State-machine model of the imat_lms request handlers: quiz attempts and *)
(* progress (courses/views.py), attendance auto-marking, payments and      *)
(* refunds (payments/views.py) and community discussion posts              *)
(* (community/views.py).  Database tables are sequences of rows (the row   *)
(* id is the index), so that uniqueness is something the handlers have to  *)
(* establish and not something the representation gives for free.          *)
(***************************************************************************)
EXTENDS Integers, Sequences, FiniteSets, Bags, TLC

VARIABLES
    now,            \* timezone.now(), a logical clock
    resp,           \* the last HTTP response
    enrollments,    \* courses.Enrollment rows
    passing_score,  \* Quiz.passing_score
    max_attempts,   \* Quiz.max_attempts
    attempts,       \* courses.QuizAttempt rows
    answers,        \* courses.QuizAnswer rows
    progress,       \* courses.Progress rows
    startReq,       \* bag of the start requests between the count and the create
    records,        \* attendance.AttendanceRecord rows
    payments,       \* payments.Payment rows
    refunds,        \* payments.RefundRequest rows
    verifyReq,      \* bag of the verify_payment requests between payment.save() and the enrollment
    posts,          \* community.DiscussionPost rows
    post_count,     \* CommunityGroup.post_count
    members,        \* community.GroupMember rows
    member_count,   \* CommunityGroup.member_count
    memberReq,      \* bag of the join and leave requests inside update_member_count
    notifications,  \* notifications.Notification rows
    notifReq,       \* bag of the mark_as_read / mark_as_unread requests between the get and the save
    messages,       \* community.ChatMessage rows
    broadcasts,     \* chat_message_broadcast events sent to the groups, in order
    connections,    \* channels in the chat groups, as (user, community)
    chatReq,        \* bag of the handle_chat_message calls between the save and the group_send
    read_receipts,  \* community.ChatMessageReadReceipt rows
    receiptBroadcasts, \* read_receipt_broadcast events sent to the groups, in order
    submissions     \* assignments.AssignmentSubmission rows

quizVars == <<passing_score, max_attempts, attempts, answers, startReq>>
payVars == <<payments, refunds, verifyReq>>
communityVars == <<posts, post_count>>
memberVars == <<members, member_count, memberReq>>
notifVars == <<notifications, notifReq>>
chatVars == <<messages, broadcasts, connections, chatReq, read_receipts, receiptBroadcasts>>
assignVars == <<submissions>>
vars == <<now, resp, enrollments, quizVars, progress, records, payVars, communityVars, memberVars, notifVars, chatVars, assignVars>>

\* What the handlers of one app leave alone
quizFrame == <<records, payVars, communityVars, memberVars, notifVars, chatVars, assignVars>>
attendanceFrame == <<quizVars, payVars, communityVars, memberVars, notifVars, chatVars, assignVars>>
payFrame == <<quizVars, progress, records, communityVars, memberVars, notifVars, chatVars, assignVars>>
communityFrame == <<enrollments, quizVars, progress, records, payVars, memberVars, notifVars, chatVars, assignVars>>
memberFrame == <<enrollments, quizVars, progress, records, payVars, communityVars, notifVars, chatVars, assignVars>>
notifFrame == <<enrollments, quizVars, progress, records, payVars, communityVars, memberVars, chatVars, assignVars>>
chatFrame == <<enrollments, quizVars, progress, records, payVars, communityVars, memberVars, notifVars, assignVars>>
assignFrame == <<enrollments, quizVars, progress, records, payVars, communityVars, memberVars, notifVars, chatVars>>

(***************************************************************************)
(* Bounds of the model                                                     *)
(***************************************************************************)
MaxTime == 2        \* the clock stops here
MaxInflight == 2    \* concurrent requests of one handler
MaxAnswers == 2     \* length of the answers list of one submit
MaxPayTime == 3     \* the clock of the payment handlers stops here
MaxPayments == 2    \* Payment rows
MaxPostTime == 4    \* the clock of the community handlers stops here
MaxPosts == 2       \* DiscussionPost rows
MaxMemberTime == 3  \* the clock of the join and leave handlers stops here
MaxNotifTime == 3   \* the clock of the notification handlers stops here
MaxNotifications == 4   \* Notification rows
MaxMarkInflight == 1    \* mark_as_read / mark_as_unread requests between get and save
MaxChatTime == 3    \* the clock of the chat handlers stops here
MaxChatInflight == 1    \* handle_chat_message calls between the save and the group_send
MaxMessages == 2    \* ChatMessage rows
MaxSubmissionTime == 3    \* the clock of the assignment handlers stops here

None == "None"

(***************************************************************************)
(* Fixture: two courses; quiz qz1 and a video in k1, quiz qz2 in k2          *)
(***************************************************************************)
Users == {"u1", "u2"}
Courses == {"k1", "k2"}
Contents == {"c1", "c2", "c3"}
ContentCourse == [c \in Contents |-> IF c = "c2" THEN "k2" ELSE "k1"]
Quizzes == {"qz1", "qz2"}
QuizContent == [z \in Quizzes |-> IF z = "qz1" THEN "c1" ELSE "c2"]
Questions == {"q1", "q2", "q4"}
QuestionQuiz == [q \in Questions |-> IF q = "q4" THEN "qz2" ELSE "qz1"]
QuestionType == [q \in Questions |-> IF q = "q2" THEN "short_answer" ELSE "multiple_choice"]
QuestionPoints == [q \in Questions |-> IF q = "q1" THEN 2 ELSE IF q = "q2" THEN 199 ELSE 1]
Options == {"o1", "o2"}
OptionQuestion == [o \in Options |-> "q1"]
OptionCorrect == [o \in Options |-> o = "o1"]
PassingScores == {1, 70}
AttemptLimits == {1, 2}
\* One community per course; g1 asks for approval of its posts
Communities == {"g1", "g2"}
CommunityCourse == [g \in Communities |-> IF g = "g1" THEN "k1" ELSE "k2"]
require_post_approval == [g \in Communities |-> g = "g1"]

\* The last request and its response: the handler, the requesting user, the
\* object it names, the status code and the error text
Response(op, who, obj, code, err) ==
    [op |-> op, who |-> who, obj |-> obj, code |-> code, err |-> err]

(***************************************************************************)
(* ORM helpers                                                             *)
(***************************************************************************)
\* Enrollment.objects.filter(user=u, course=c, is_active=True)
ActiveEnrollments(u, c) ==
    {i \in DOMAIN enrollments :
        /\ enrollments[i].user = u
        /\ enrollments[i].course = c
        /\ enrollments[i].is_active}

\* QuizAttempt.objects.filter(enrollment=e, quiz=z).count()
AttemptCount(e, z) ==
    Cardinality({i \in DOMAIN attempts :
        attempts[i].enrollment = e /\ attempts[i].quiz = z})

\* Progress.objects.filter(enrollment=e, content=c)
ProgressRows(rows, e, c) ==
    {i \in DOMAIN rows : rows[i].enrollment = e /\ rows[i].content = c}

NewProgress(e, c) ==
    [enrollment |-> e, content |-> c, is_completed |-> FALSE,
     completion_date |-> 0, time_spent |-> 0, last_position |-> 0,
     updated_at |-> 0]

\* Progress.objects.get_or_create(enrollment=e, content=c): the table after it
ProgressGetOrCreate(rows, e, c) ==
    IF ProgressRows(rows, e, c) # {} THEN rows ELSE Append(rows, NewProgress(e, c))

ProgressIndex(rows, e, c) == CHOOSE i \in ProgressRows(rows, e, c) : TRUE

(***************************************************************************)
(* QuizAttemptViewSet.start, in two steps: the count, then the create      *)
(***************************************************************************)
\* The guard of the attempt limit
LimitReached(existing, z) == existing >= max_attempts[z]

StartCheck(u, z) ==
    /\ BagCardinality(startReq) < MaxInflight
    /\ IF ActiveEnrollments(u, ContentCourse[QuizContent[z]]) = {}
       THEN /\ resp' = Response("start", u, z, 404, "not enrolled")
            /\ UNCHANGED startReq
       ELSE LET e == CHOOSE i \in ActiveEnrollments(u, ContentCourse[QuizContent[z]]) : TRUE
                existing == AttemptCount(e, z)
            IN IF LimitReached(existing, z)
               THEN /\ resp' = Response("start", u, z, 400, "Maximum attempts reached")
                    /\ UNCHANGED startReq
               ELSE /\ startReq' = startReq (+) SetToBag(
                          {[enrollment |-> e, quiz |-> z, existing_attempts |-> existing]})
                    /\ resp' = Response("start", u, z, 0, "in progress")
    /\ UNCHANGED <<now, enrollments, passing_score, max_attempts,
                   attempts, answers, progress, quizFrame>>

StartCreate(r) ==
    /\ BagIn(r, startReq)
    /\ now < MaxTime
    /\ now' = now + 1
    /\ attempts' = Append(attempts,
          [enrollment |-> r.enrollment,
           quiz |-> r.quiz,
           attempt_number |-> r.existing_attempts + 1,
           score |-> 0, passed |-> FALSE,
           started_at |-> now', completed_at |-> 0])
    /\ startReq' = startReq (-) SetToBag({r})
    /\ resp' = Response("start", enrollments[r.enrollment].user, r.quiz, 201, "created")
    /\ UNCHANGED <<enrollments, passing_score, max_attempts, answers, progress, quizFrame>>

(***************************************************************************)
(* QuizAttemptViewSet.submit                                               *)
(***************************************************************************)
\* One element of request.data['answers'].  The option sent with a question
\* that is not multiple choice or not of this quiz is never read, so those
\* questions come with None only.
AnswerItems ==
    {x \in [question_id : Questions, selected_option_id : Options \cup {None}] :
        x.question_id # "q1" => x.selected_option_id = None}

RECURSIVE SeqsUpTo(_, _)
SeqsUpTo(S, n) ==
    IF n = 0 THEN {<<>>}
    ELSE SeqsUpTo(S, n - 1) \cup
         {Append(q, x) : q \in {t \in SeqsUpTo(S, n - 1) : Len(t) = n - 1}, x \in S}

AnswerLists == SeqsUpTo(AnswerItems, MaxAnswers)

\* The loop over answers_data from its i-th element on.  acc carries the
\* QuizAnswer table, total_points, earned_points and the error that ended
\* the request ("ok" while none did).  Rows created before an error stay:
\* the view runs outside a transaction.
RECURSIVE ScoreAnswers(_, _, _, _)
ScoreAnswers(a, ans, i, acc) ==
    IF i > Len(ans) \/ acc.err # "ok" THEN acc
    ELSE LET q == ans[i].question_id
             o == ans[i].selected_option_id
         IN IF QuestionQuiz[q] # attempts[a].quiz
            THEN [acc EXCEPT !.err = "404"]
            ELSE LET counted == [acc EXCEPT !.total = @ + QuestionPoints[q]]
                 IN IF QuestionType[q] = "multiple_choice" /\ o # None
                    THEN IF \E r \in acc.rows : r.attempt = a /\ r.question = q
                         THEN [counted EXCEPT !.err = "500"]
                         ELSE ScoreAnswers(a, ans, i + 1,
                                 [counted EXCEPT
                                    !.earned = @ + (IF OptionCorrect[o] THEN QuestionPoints[q] ELSE 0),
                                    !.rows = @ \cup {[attempt |-> a, question |-> q,
                                        selected_option |-> o,
                                        is_correct |-> OptionCorrect[o],
                                        points_earned |->
                                            IF OptionCorrect[o] THEN QuestionPoints[q] ELSE 0]}])
                    ELSE ScoreAnswers(a, ans, i + 1, counted)

\* n/d rounded to an integer, ties to even (decimal.ROUND_HALF_EVEN)
RoundHalfEven(n, d) ==
    LET q == n \div d
        r == n % d
    IN IF 2 * r > d \/ (2 * r = d /\ q % 2 = 1) THEN q + 1 ELSE q

RECURSIVE Pow10(_)
Pow10(k) == IF k = 0 THEN 1 ELSE 10 * Pow10(k - 1)

RECURSIVE LeadingShift(_, _)
LeadingShift(n, d) == IF 10 * n >= d THEN 1 ELSE 1 + LeadingShift(10 * n, d)

\* Decimal places that max_digits significant digits leave to n/d > 0
FracDigits(n, d, max_digits) ==
    IF n >= 100 * d THEN max_digits - 3
    ELSE IF n >= 10 * d THEN max_digits - 2
    ELSE IF n >= d THEN max_digits - 1
    ELSE max_digits - 1 + LeadingShift(n, d)

\* The value the column score = DecimalField(max_digits, decimal_places) keeps
\* of the float (earned / total) * 100, in units of 10^-decimal_places: the
\* float is rounded to max_digits significant digits, then to decimal_places.
StoredScore(earned, total, max_digits, decimal_places) ==
    IF total = 0 \/ earned = 0 THEN 0
    ELSE LET k == FracDigits(100 * earned, total, max_digits)
             r1 == RoundHalfEven(100 * earned * Pow10(k), total)
         IN RoundHalfEven(r1, Pow10(k - decimal_places))

ScoreMaxDigits == 5
ScoreDecimalPlaces == 2

\* score >= attempt.quiz.passing_score, on the float score = (earned / total) * 100
\* (0 when total_points is 0)
Passed(earned, total, passing) ==
    IF total > 0 THEN 100 * earned >= passing * total ELSE 0 >= passing

CompleteProgressUnset(rows, e, c, t) ==
    LET got == ProgressGetOrCreate(rows, e, c)
    IN [got EXCEPT ![ProgressIndex(got, e, c)].updated_at = t]

\* if attempt.passed: get_or_create the Progress row and complete it
CompleteProgress(rows, e, c, t) ==
    LET got == ProgressGetOrCreate(rows, e, c)
        i == ProgressIndex(got, e, c)
    IN [got EXCEPT ![i].is_completed = TRUE, ![i].completion_date = t,
                   ![i].updated_at = t]

AlreadySubmittedNever(a) == FALSE

\* if attempt.completed_at: the attempt was scored before
AlreadySubmitted(a) == attempts[a].completed_at # 0

Submit(u, a) ==
    /\ a \in DOMAIN attempts
    /\ IF enrollments[attempts[a].enrollment].user # u
       THEN /\ resp' = Response("submit", u, a, 404, "no such attempt")
            /\ UNCHANGED <<now, attempts, answers, progress>>
       ELSE IF AlreadySubmitted(a)
       THEN /\ resp' = Response("submit", u, a, 400, "Quiz already submitted")
            /\ UNCHANGED <<now, attempts, answers, progress>>
       ELSE \E ans \in AnswerLists :
            LET res == ScoreAnswers(a, ans, 1,
                          [rows |-> answers, total |-> 0, earned |-> 0, err |-> "ok"])
            IN IF res.err # "ok"
               THEN /\ answers' = res.rows
                    /\ resp' = Response("submit", u, a,
                                     IF res.err = "404" THEN 404 ELSE 500, res.err)
                    /\ UNCHANGED <<now, attempts, progress>>
               ELSE LET ok == Passed(res.earned, res.total, passing_score[attempts[a].quiz])
                    IN /\ now < MaxTime
                       /\ now' = now + 1
                       /\ answers' = res.rows
                       /\ attempts' = [attempts EXCEPT
                             ![a].score = StoredScore(res.earned, res.total,
                                             ScoreMaxDigits, ScoreDecimalPlaces),
                             ![a].passed = ok,
                             ![a].completed_at = now']
                       /\ progress' = IF ok
                             THEN CompleteProgress(progress, attempts[a].enrollment,
                                      QuizContent[attempts[a].quiz], now')
                             ELSE progress
                       /\ resp' = Response("submit", u, a, 200, "ok")
    /\ UNCHANGED <<enrollments, passing_score, max_attempts, startReq, quizFrame>>

InitQuiz ==
    /\ now = 0
    /\ resp = Response("none", None, None, 0, "none")
    /\ enrollments = <<[user |-> "u1", course |-> "k1", is_active |-> TRUE],
                       [user |-> "u2", course |-> "k1", is_active |-> FALSE]>>
    /\ passing_score \in {f \in [Quizzes -> PassingScores] : f["qz2"] = 70}
    /\ max_attempts \in {f \in [Quizzes -> AttemptLimits] : f["qz2"] = 1}
    /\ attempts = <<>>
    /\ answers = {}
    /\ progress = <<>>
    /\ startReq = EmptyBag
    /\ records = <<>>
    /\ payments = <<>>
    /\ refunds = <<>>
    /\ verifyReq = EmptyBag
    /\ posts = <<>>
    /\ post_count = [g \in Communities |-> 0]
    /\ members = <<>>
    /\ member_count = [g \in Communities |-> 0]
    /\ memberReq = EmptyBag
    /\ notifications = <<>>
    /\ notifReq = EmptyBag
    /\ messages = <<>>
    /\ broadcasts = <<>>
    /\ connections = {}
    /\ chatReq = EmptyBag
    /\ read_receipts = <<>>
    /\ receiptBroadcasts = <<>>
    /\ submissions = <<>>

NextQuiz ==
    \/ \E u \in Users, z \in Quizzes : StartCheck(u, z)
    \/ \E r \in BagToSet(startReq) : StartCreate(r)
    \/ \E u \in Users, a \in DOMAIN attempts : Submit(u, a)

SpecQuiz == InitQuiz /\ [][NextQuiz]_vars

(***************************************************************************)
(* Quiz attempts: claims                                                   *)
(***************************************************************************)
\* C1: for every enrollment and quiz the number of QuizAttempt rows never
\* exceeds quiz.max_attempts, whatever the interleaving of start requests.
C1_AttemptsWithinLimit ==
    \A e \in DOMAIN enrollments, z \in Quizzes : AttemptCount(e, z) <= max_attempts[z]

\* C2: after a successful submit the attempt's passed flag is true exactly
\* when its stored score is at least the quiz's passing_score, the score
\* lies between 0 and 100 and completed_at is set.
C2_PassedIffScoreAtLeastPassing ==
    (resp.op = "submit" /\ resp.code = 200) =>
        LET t == attempts[resp.obj]
        IN /\ t.passed <=> (t.score >= Pow10(ScoreDecimalPlaces) * passing_score[t.quiz])
           /\ t.score >= 0
           /\ t.score <= 100 * Pow10(ScoreDecimalPlaces)
           /\ t.completed_at # 0

\* C3: once an attempt has completed_at set, no step changes the attempt or
\* its QuizAnswer rows, and every submit of its owner for it is answered
\* 400 'Quiz already submitted' and leaves the Progress table unchanged.
C3_ScoredAtMostOnce ==
    [][\A a \in DOMAIN attempts :
          attempts[a].completed_at # 0 =>
             /\ a \in DOMAIN attempts'
             /\ attempts'[a] = attempts[a]
             /\ {r \in answers' : r.attempt = a} = {r \in answers : r.attempt = a}
             /\ (/\ resp'.op = "submit"
                 /\ resp'.obj = a
                 /\ resp'.who = enrollments[attempts[a].enrollment].user)
                => /\ resp'.code = 400
                   /\ resp'.err = "Quiz already submitted"
                   /\ progress' = progress]_vars

C3_Witness ==
    /\ resp.op = "submit"
    /\ resp.code = 400
    /\ resp.err = "Quiz already submitted"
    /\ attempts[resp.obj].completed_at # 0
    /\ attempts[resp.obj].passed

\* C4: a submit that ends with passed = true leaves a Progress row for (the
\* attempt's enrollment, the quiz's content) with is_completed = true and a
\* completion_date; a submit that ends with passed = false leaves the
\* Progress table as it was.
C4_ProgressOnlyWhenPassed ==
    [][(resp'.op = "submit" /\ resp'.code = 200) =>
          LET t == attempts'[resp'.obj]
              rows == ProgressRows(progress', t.enrollment, QuizContent[t.quiz])
          IN IF t.passed
             THEN /\ rows # {}
                  /\ \A i \in rows : /\ progress'[i].is_completed
                                     /\ progress'[i].completion_date # 0
             ELSE progress' = progress]_vars

C4_Witness ==
    /\ resp.op = "submit"
    /\ resp.code = 200
    /\ attempts[resp.obj].passed
    /\ \E i \in DOMAIN progress :
          /\ progress[i].enrollment = attempts[resp.obj].enrollment
          /\ progress[i].content = QuizContent[attempts[resp.obj].quiz]
          /\ progress[i].is_completed

RECURSIVE SumPoints(_)
SumPoints(qs) ==
    IF qs = {} THEN 0
    ELSE LET q == CHOOSE x \in qs : TRUE IN QuestionPoints[q] + SumPoints(qs \ {q})

\* QuizSerializer.get_total_points: sum(q.points for q in obj.questions.all())
QuizTotalPoints(z) == SumPoints({q \in Questions : QuestionQuiz[q] = z})

\* the points of the questions an attempt has a correct QuizAnswer for
EarnedPoints(rows, a) ==
    SumPoints({q \in Questions :
                 \E r \in rows : r.attempt = a /\ r.question = q /\ r.is_correct})

\* C19: the score of a submitted attempt is the percentage of the quiz's total
\* points (the points of all questions of the quiz) earned by correct answers,
\* and the attempt passes only if that percentage reaches passing_score;
\* questions left out of the submitted answers earn nothing.
C19_ScoreIsPercentOfQuizTotal ==
    [][(resp'.op = "submit" /\ resp'.code = 200) =>
          LET t == attempts'[resp'.obj]
              earned == EarnedPoints(answers', resp'.obj)
              total == QuizTotalPoints(t.quiz)
          IN /\ t.score = StoredScore(earned, total, ScoreMaxDigits, ScoreDecimalPlaces)
             /\ t.passed => Passed(earned, total, passing_score'[t.quiz])]_vars

(***************************************************************************)
(* ProgressViewSet.update_progress and the attendance it marks             *)
(***************************************************************************)
\* AttendanceSession rows (the id is the index)
Sessions ==
    <<[course |-> "k1", linked_content |-> "c1", is_required |-> TRUE],
      [course |-> "k1", linked_content |-> "c1", is_required |-> FALSE],
      [course |-> "k1", linked_content |-> "c3", is_required |-> TRUE],
      [course |-> "k1", linked_content |-> None, is_required |-> TRUE]>>

\* The optional fields of ProgressUpdateSerializer: None (NotSent for the
\* integer fields) when the request leaves the field out
NotSent == 0 - 1
CompletedInputs == {None, "true", "false"}
TimeSpentInputs == {NotSent, 30}
LastPositionInputs == {NotSent, 10}

LinkedSessionsAny(c) == {s \in DOMAIN Sessions : Sessions[s].linked_content = c}

\* AttendanceSession.objects.filter(linked_content=content, is_required=True)
LinkedSessions(c) ==
    {s \in DOMAIN Sessions : Sessions[s].linked_content = c /\ Sessions[s].is_required}

\* AttendanceRecord.objects.filter(session=s, user=u)
RecordRows(rows, s, u) == {i \in DOMAIN rows : rows[i].session = s /\ rows[i].user = u}

\* AttendanceRecord.objects.update_or_create(session=s, user=u,
\* defaults={'status': st}) at time t
UpdateOrCreateRecord(rows, s, u, st, t) ==
    IF RecordRows(rows, s, u) # {}
    THEN LET i == CHOOSE j \in RecordRows(rows, s, u) : TRUE
         IN [rows EXCEPT ![i].status = st, ![i].updated_at = t]
    ELSE Append(rows, [session |-> s, user |-> u, status |-> st,
                       logged_at |-> t, updated_at |-> t])

\* for session in sessions (ascending ids from s on): update_or_create
RECURSIVE MarkSessions(_, _, _, _, _, _)
MarkSessions(rows, todo, s, u, st, t) ==
    IF s > Len(Sessions) THEN rows
    ELSE MarkSessions(IF s \in todo THEN UpdateOrCreateRecord(rows, s, u, st, t) ELSE rows,
                      todo, s + 1, u, st, t)

UpdateProgress(u, c, is_completed, time_spent, last_position) ==
    /\ IF ActiveEnrollments(u, ContentCourse[c]) = {}
       THEN /\ resp' = Response("update_progress", u, c, 404, "not enrolled")
            /\ UNCHANGED <<now, progress, records>>
       ELSE LET e == CHOOSE i \in ActiveEnrollments(u, ContentCourse[c]) : TRUE
                got == ProgressGetOrCreate(progress, e, c)
                i == ProgressIndex(got, e, c)
                done == IF is_completed = None THEN got[i].is_completed
                        ELSE is_completed = "true"
            IN /\ now < MaxTime
               /\ now' = now + 1
               /\ progress' = [got EXCEPT
                     ![i].is_completed = done,
                     ![i].completion_date =
                         IF is_completed # None /\ done /\ @ = 0 THEN now' ELSE @,
                     ![i].time_spent = IF time_spent = NotSent THEN @ ELSE time_spent,
                     ![i].last_position = IF last_position = NotSent THEN @ ELSE last_position,
                     ![i].updated_at = now']
               /\ records' = MarkSessions(records, LinkedSessions(c), 1, u, "present", now')
               /\ resp' = Response("update_progress", u, c, 200, "ok")
    /\ UNCHANGED <<enrollments, attendanceFrame>>

\* for uid in user_ids: update_or_create
RECURSIVE MarkUsers(_, _, _, _, _)
MarkUsers(rows, s, todo, st, t) ==
    IF todo = {} THEN rows
    ELSE LET u == CHOOSE x \in todo : TRUE
         IN MarkUsers(UpdateOrCreateRecord(rows, s, u, st, t), s, todo \ {u}, st, t)

\* AdminAttendanceActionsViewSet.mark_present
MarkPresent(s, user_ids) ==
    /\ now < MaxTime
    /\ now' = now + 1
    /\ records' = MarkUsers(records, s, user_ids, "present", now')
    /\ resp' = Response("mark_present", "admin", s, 200, "ok")
    /\ UNCHANGED <<enrollments, progress, attendanceFrame>>

\* AdminAttendanceActionsViewSet.mark_absent_for_others
MarkAbsentForOthers(s, present_user_ids) ==
    /\ now < MaxTime
    /\ now' = now + 1
    /\ records' = MarkUsers(records, s,
          {u \in Users : ActiveEnrollments(u, Sessions[s].course) # {}} \ present_user_ids,
          "absent", now')
    /\ resp' = Response("mark_absent_for_others", "admin", s, 200, "ok")
    /\ UNCHANGED <<enrollments, progress, attendanceFrame>>

InitAttendance ==
    /\ now = 0
    /\ resp = Response("none", None, None, 0, "none")
    /\ enrollments = <<[user |-> "u1", course |-> "k1", is_active |-> TRUE],
                       [user |-> "u2", course |-> "k1", is_active |-> FALSE]>>
    /\ passing_score = [z \in Quizzes |-> 70]
    /\ max_attempts = [z \in Quizzes |-> 3]
    /\ attempts = <<>>
    /\ answers = {}
    /\ startReq = EmptyBag
    /\ progress = <<>>
    /\ records = <<>>
    /\ payments = <<>>
    /\ refunds = <<>>
    /\ verifyReq = EmptyBag
    /\ posts = <<>>
    /\ post_count = [g \in Communities |-> 0]
    /\ members = <<>>
    /\ member_count = [g \in Communities |-> 0]
    /\ memberReq = EmptyBag
    /\ notifications = <<>>
    /\ notifReq = EmptyBag
    /\ messages = <<>>
    /\ broadcasts = <<>>
    /\ connections = {}
    /\ chatReq = EmptyBag
    /\ read_receipts = <<>>
    /\ receiptBroadcasts = <<>>
    /\ submissions = <<>>

NextAttendance ==
    \/ \E u \in Users, c \in Contents, ic \in CompletedInputs,
          ts \in TimeSpentInputs, lp \in LastPositionInputs :
          UpdateProgress(u, c, ic, ts, lp)
    \/ \E s \in DOMAIN Sessions, ids \in SUBSET Users : MarkPresent(s, ids)
    \/ \E s \in DOMAIN Sessions, ids \in SUBSET Users : MarkAbsentForOthers(s, ids)

SpecAttendance == InitAttendance /\ [][NextAttendance]_vars

\* C5: after a successful update_progress by user u for content c, every
\* session with linked_content = c and is_required has exactly one record of
\* u and its status is present; no record of another session or of another
\* user is created or changed by that call.
C5_AttendanceMarkedForRequiredLinkedSessions ==
    [][(resp'.op = "update_progress" /\ resp'.code = 200) =>
          /\ \A s \in DOMAIN Sessions :
                (Sessions[s].linked_content = resp'.obj /\ Sessions[s].is_required) =>
                   /\ Cardinality(RecordRows(records', s, resp'.who)) = 1
                   /\ \A i \in RecordRows(records', s, resp'.who) :
                         records'[i].status = "present"
          /\ \A i \in DOMAIN records' :
                (\/ records'[i].user # resp'.who
                 \/ Sessions[records'[i].session].linked_content # resp'.obj
                 \/ ~Sessions[records'[i].session].is_required)
                => (i \in DOMAIN records /\ records'[i] = records[i])
          /\ \A i \in DOMAIN records :
                i \in DOMAIN records' /\ records'[i].session = records[i].session
                                      /\ records'[i].user = records[i].user]_vars

C5_Witness ==
    /\ resp.op = "update_progress"
    /\ resp.code = 200
    /\ resp.obj = "c1"
    /\ \E i \in DOMAIN records :
          records[i].session = 1 /\ records[i].user = resp.who /\ records[i].status = "present"
    /\ \E i \in DOMAIN records :
          records[i].session = 2 /\ records[i].user = resp.who /\ records[i].status = "absent"

(***************************************************************************)
(* Payments: PaymentViewSet and RefundRequestViewSet                       *)
(***************************************************************************)
Admins == {"admin"}
\* CustomUser.is_admin
IsAdminAnyone(u) == TRUE
IsAdmin(u) == u \in Admins

CoursePublished == [c \in Courses |-> c = "k1"]
CoursePrice == [c \in Courses |-> IF c = "k1" THEN 500 ELSE 900]
\* Ids the gateway hands to the client for a payment
RazorpayPaymentIds == {1, 2}

\* hmac.new(secret, f"{order_id}|{payment_id}", sha256).hexdigest()
Hmac(order_id, payment_id) == <<order_id, payment_id>>
NoSignature == <<0, 0>>

SignatureMatchesAlways(order_id, payment_id, signature) == TRUE
\* generated_signature == razorpay_signature
SignatureMatches(order_id, payment_id, signature) ==
    Hmac(order_id, payment_id) = signature

\* Enrollment.objects.filter(user=u, course=c)
EnrollmentRows(rows, u, c) ==
    {i \in DOMAIN rows : rows[i].user = u /\ rows[i].course = c}

EnrollmentAlwaysCreate(rows, u, c) ==
    Append(rows, [user |-> u, course |-> c, is_active |-> TRUE])

\* Enrollment.objects.get_or_create(user=u, course=c, defaults={'is_active': True}),
\* then is_active = True on a row that was there: the table after both
EnrollmentGetOrCreate(rows, u, c) ==
    IF EnrollmentRows(rows, u, c) # {}
    THEN [rows EXCEPT ![CHOOSE i \in EnrollmentRows(rows, u, c) : TRUE].is_active = TRUE]
    ELSE Append(rows, [user |-> u, course |-> c, is_active |-> TRUE])

\* PaymentViewSet.create_order; gateway_ok: client.order.create did not raise
CreateOrder(u, c, gateway_ok) ==
    /\ IF ~CoursePublished[c]
       THEN /\ resp' = Response("create_order", u, c, 404, "Course not found")
            /\ UNCHANGED <<now, payments>>
       ELSE IF ActiveEnrollments(u, c) # {}
       THEN /\ resp' = Response("create_order", u, c, 400, "already enrolled")
            /\ UNCHANGED <<now, payments>>
       ELSE IF ~gateway_ok
       THEN /\ resp' = Response("create_order", u, c, 500, "Failed to create order")
            /\ UNCHANGED <<now, payments>>
       ELSE /\ Len(payments) < MaxPayments
            /\ now < MaxPayTime
            /\ now' = now + 1
            /\ payments' = Append(payments,
                  [user |-> u, course |-> c,
                   razorpay_order_id |-> Len(payments) + 1,
                   razorpay_payment_id |-> 0,
                   razorpay_signature |-> NoSignature,
                   amount |-> CoursePrice[c], status |-> "pending",
                   error_message |-> "", completed_at |-> 0])
            /\ resp' = Response("create_order", u, c, 201, "created")
    /\ UNCHANGED <<enrollments, refunds, verifyReq, payFrame>>

\* Payment.objects.filter(razorpay_order_id=o, user=u, course_id=c)
PaymentsOf(o, u, c) ==
    {i \in DOMAIN payments :
        /\ payments[i].razorpay_order_id = o
        /\ payments[i].user = u
        /\ payments[i].course = c}

\* PaymentViewSet.verify_payment up to payment.save()
VerifyPaymentCheck(u, o, q, signature, c) ==
    /\ IF PaymentsOf(o, u, c) = {}
       THEN /\ resp' = Response("verify_payment", u, o, 404, "no such payment")
            /\ UNCHANGED <<now, payments, verifyReq>>
       ELSE LET i == CHOOSE j \in PaymentsOf(o, u, c) : TRUE
            IN /\ now < MaxPayTime
               /\ now' = now + 1
               /\ IF ~SignatureMatches(o, q, signature)
                  THEN /\ payments' = [payments EXCEPT
                            ![i].status = "failed",
                            ![i].error_message = "Invalid payment signature"]
                       /\ resp' = Response("verify_payment", u, i, 400,
                                           "Payment verification failed")
                       /\ UNCHANGED verifyReq
                  ELSE /\ BagCardinality(verifyReq) < MaxInflight
                       /\ payments' = [payments EXCEPT
                            ![i].razorpay_payment_id = q,
                            ![i].razorpay_signature = signature,
                            ![i].status = "completed",
                            ![i].completed_at = now']
                       /\ verifyReq' = verifyReq (+) SetToBag(
                             {[user |-> u, payment |-> i, course |-> payments[i].course,
                               order_id |-> o, payment_id |-> q, signature |-> signature]})
                       /\ resp' = Response("verify_payment", u, i, 0, "signature verified")
    /\ UNCHANGED <<enrollments, refunds, payFrame>>

\* PaymentViewSet.verify_payment from the get_or_create on
VerifyPaymentEnroll(r) ==
    /\ BagIn(r, verifyReq)
    /\ enrollments' = EnrollmentGetOrCreate(enrollments, r.user, r.course)
    /\ verifyReq' = verifyReq (-) SetToBag({r})
    /\ resp' = Response("verify_payment", r.user, r.payment, 200,
                        "Payment successful and enrollment created")
    /\ UNCHANGED <<now, payments, refunds, payFrame>>

\* PaymentViewSet.payment_failed
PaymentFailed(u, i) ==
    /\ IF i \notin DOMAIN payments \/ (payments[i].user # u /\ ~IsAdmin(u))
       THEN /\ resp' = Response("payment_failed", u, i, 404, "no such payment")
            /\ UNCHANGED <<now, payments>>
       ELSE /\ now < MaxPayTime
            /\ now' = now + 1
            /\ payments' = [payments EXCEPT ![i].status = "failed",
                                            ![i].error_message = "Payment failed"]
            /\ resp' = Response("payment_failed", u, i, 200, "Payment marked as failed")
    /\ UNCHANGED <<enrollments, refunds, verifyReq, payFrame>>

\* hasattr(payment, 'refund_request')
HasRefundRequest(i) == \E j \in DOMAIN refunds : refunds[j].payment = i

OwnPaymentAny(u, i) == i \in DOMAIN payments
\* get_object_or_404(Payment, id=payment_id, user=self.request.user)
OwnPayment(u, i) == i \in DOMAIN payments /\ payments[i].user = u

\* RefundRequestViewSet.create: payment is the serializer's field 'payment',
\* payment_id the key of request.data that perform_create reads
RefundCreate(u, payment, payment_id) ==
    /\ IF payment \notin DOMAIN payments \/ HasRefundRequest(payment)
       THEN /\ resp' = Response("refund_create", u, payment_id, 400, "invalid payment field")
            /\ UNCHANGED <<now, refunds>>
       ELSE IF ~OwnPayment(u, payment_id)
       THEN /\ resp' = Response("refund_create", u, payment_id, 404, "no such payment")
            /\ UNCHANGED <<now, refunds>>
       ELSE IF payments[payment_id].status # "completed"
       THEN /\ resp' = Response("refund_create", u, payment_id, 400,
                                "Can only request refund for completed payments")
            /\ UNCHANGED <<now, refunds>>
       ELSE IF HasRefundRequest(payment_id)
       THEN /\ resp' = Response("refund_create", u, payment_id, 400,
                                "Refund request already exists for this payment")
            /\ UNCHANGED <<now, refunds>>
       ELSE /\ now < MaxPayTime
            /\ now' = now + 1
            /\ refunds' = Append(refunds,
                  [payment |-> payment_id, status |-> "pending",
                   razorpay_refund_id |-> 0, refund_amount |-> 0, processed_at |-> 0])
            /\ resp' = Response("refund_create", u, payment_id, 201, "created")
    /\ UNCHANGED <<enrollments, payments, verifyReq, payFrame>>

\* enrollment = Enrollment.objects.filter(user=u, course=c).first();
\* if enrollment: is_active = False
DeactivateEnrollment(rows, u, c) ==
    IF EnrollmentRows(rows, u, c) = {} THEN rows
    ELSE [rows EXCEPT ![CHOOSE i \in EnrollmentRows(rows, u, c) : TRUE].is_active = FALSE]

\* RefundRequestViewSet.approve; gateway_ok: client.payment.refund did not raise
Approve(u, j, gateway_ok) ==
    /\ IF ~IsAdmin(u)
       THEN /\ resp' = Response("approve", u, j, 403, "Only admins can approve refunds")
            /\ UNCHANGED <<now, refunds, payments, enrollments>>
       ELSE IF j \notin DOMAIN refunds
       THEN /\ resp' = Response("approve", u, j, 404, "no such refund request")
            /\ UNCHANGED <<now, refunds, payments, enrollments>>
       ELSE IF refunds[j].status # "pending"
       THEN /\ resp' = Response("approve", u, j, 400,
                                "Can only approve pending refund requests")
            /\ UNCHANGED <<now, refunds, payments, enrollments>>
       ELSE IF ~gateway_ok
       THEN /\ resp' = Response("approve", u, j, 500, "Failed to process refund")
            /\ UNCHANGED <<now, refunds, payments, enrollments>>
       ELSE LET i == refunds[j].payment
            IN /\ now < MaxPayTime
               /\ now' = now + 1
               /\ refunds' = [refunds EXCEPT
                     ![j].status = "processed",
                     ![j].razorpay_refund_id = j,
                     ![j].refund_amount = payments[i].amount,
                     ![j].processed_at = now']
               /\ payments' = [payments EXCEPT ![i].status = "refunded"]
               /\ enrollments' = DeactivateEnrollment(enrollments,
                                     payments[i].user, payments[i].course)
               /\ resp' = Response("approve", u, j, 200, "Refund processed successfully")
    /\ UNCHANGED <<verifyReq, payFrame>>

\* RefundRequestViewSet.reject
Reject(u, j) ==
    /\ IF ~IsAdmin(u)
       THEN /\ resp' = Response("reject", u, j, 403, "Only admins can reject refunds")
            /\ UNCHANGED <<now, refunds>>
       ELSE IF j \notin DOMAIN refunds
       THEN /\ resp' = Response("reject", u, j, 404, "no such refund request")
            /\ UNCHANGED <<now, refunds>>
       ELSE IF refunds[j].status # "pending"
       THEN /\ resp' = Response("reject", u, j, 400,
                                "Can only reject pending refund requests")
            /\ UNCHANGED <<now, refunds>>
       ELSE /\ now < MaxPayTime
            /\ now' = now + 1
            /\ refunds' = [refunds EXCEPT ![j].status = "rejected"]
            /\ resp' = Response("reject", u, j, 200, "Refund request rejected")
    /\ UNCHANGED <<enrollments, payments, verifyReq, payFrame>>

\* u1 has paid for k1 (order 1) and is enrolled; u2's enrollment in k1 was
\* deactivated
InitPay ==
    /\ now = 1
    /\ resp = Response("none", None, None, 0, "none")
    /\ enrollments = <<[user |-> "u1", course |-> "k1", is_active |-> TRUE],
                       [user |-> "u2", course |-> "k1", is_active |-> FALSE]>>
    /\ payments = <<[user |-> "u1", course |-> "k1", razorpay_order_id |-> 1,
                     razorpay_payment_id |-> 1, razorpay_signature |-> Hmac(1, 1),
                     amount |-> CoursePrice["k1"], status |-> "completed",
                     error_message |-> "", completed_at |-> 1]>>
    /\ refunds = <<>>
    /\ verifyReq = EmptyBag
    /\ posts = <<>>
    /\ post_count = [g \in Communities |-> 0]
    /\ members = <<>>
    /\ member_count = [g \in Communities |-> 0]
    /\ memberReq = EmptyBag
    /\ notifications = <<>>
    /\ notifReq = EmptyBag
    /\ messages = <<>>
    /\ broadcasts = <<>>
    /\ connections = {}
    /\ chatReq = EmptyBag
    /\ read_receipts = <<>>
    /\ receiptBroadcasts = <<>>
    /\ submissions = <<>>
    /\ passing_score = [z \in Quizzes |-> 70]
    /\ max_attempts = [z \in Quizzes |-> 3]
    /\ attempts = <<>>
    /\ answers = {}
    /\ startReq = EmptyBag
    /\ progress = <<>>
    /\ records = <<>>

PayUsers == Users \cup Admins

\* Ids a client can send: those of the rows there are and one that is not there
PaymentIdInputs == 1..(Len(payments) + 1)
RefundIdInputs == 1..(Len(refunds) + 1)
\* Signatures a client can send for an order: the ones the gateway issues for
\* that order, one per payment id
SignatureInputs(o) == {Hmac(o, p) : p \in RazorpayPaymentIds}

NextPay ==
    \/ \E u \in PayUsers, c \in Courses, ok \in BOOLEAN : CreateOrder(u, c, ok)
    \/ \E u \in PayUsers, o \in PaymentIdInputs, q \in RazorpayPaymentIds, c \in Courses :
          \E sig \in SignatureInputs(o) : VerifyPaymentCheck(u, o, q, sig, c)
    \/ \E r \in BagToSet(verifyReq) : VerifyPaymentEnroll(r)
    \/ \E u \in PayUsers, i \in PaymentIdInputs : PaymentFailed(u, i)
    \/ \E u \in PayUsers, i \in PaymentIdInputs, k \in PaymentIdInputs : RefundCreate(u, i, k)
    \/ \E u \in PayUsers, j \in RefundIdInputs, ok \in BOOLEAN : Approve(u, j, ok)
    \/ \E u \in PayUsers, j \in RefundIdInputs : Reject(u, j)

SpecPay == InitPay /\ [][NextPay]_vars

(***************************************************************************)
(* Payments: claims                                                        *)
(***************************************************************************)
UniqueEnrollments(rows) ==
    \A i, j \in DOMAIN rows :
        (rows[i].user = rows[j].user /\ rows[i].course = rows[j].course) => i = j

\* C6: verify_payment touches the Enrollment table only after the supplied
\* signature matched the one computed for (order id, payment id).  With a
\* matching signature the payment is saved as completed with completed_at
\* set and the request ends with an active enrollment of the user in the
\* payment's course; with another signature the payment is saved as failed
\* and the Enrollment table is left as it was.
C6_EnrollmentOnlyOnValidSignature ==
    [][resp'.op = "verify_payment" =>
          /\ resp'.code = 400 =>
                /\ payments'[resp'.obj].status = "failed"
                /\ enrollments' = enrollments
          /\ resp'.code = 0 =>
                /\ payments'[resp'.obj].status = "completed"
                /\ payments'[resp'.obj].completed_at # 0
                /\ enrollments' = enrollments
          /\ resp'.code = 200 =>
                \E i \in DOMAIN enrollments' :
                    /\ enrollments'[i].user = resp'.who
                    /\ enrollments'[i].course = payments[resp'.obj].course
                    /\ enrollments'[i].is_active
          /\ resp'.code = 404 => (enrollments' = enrollments /\ payments' = payments)
          /\ \A r \in BagToSet(verifyReq') :
                Hmac(r.order_id, r.payment_id) = r.signature
          /\ \A r \in BagToSet(verifyReq) :
                Hmac(r.order_id, r.payment_id) = r.signature]_vars

C6_Witness ==
    /\ resp.op = "verify_payment"
    /\ resp.code = 200
    /\ payments[resp.obj].razorpay_order_id = 2
    /\ payments[resp.obj].status = "completed"
    /\ \E i \in DOMAIN enrollments :
          /\ enrollments[i].user = resp.who
          /\ enrollments[i].course = payments[resp.obj].course
          /\ enrollments[i].is_active

\* C7: there is at most one Enrollment row per (user, course) after every
\* step, and a verify_payment that ends for a user who has a row for the
\* course adds no row and leaves that row active.
C7_OneEnrollmentPerUserCourse ==
    [][/\ UniqueEnrollments(enrollments')
       /\ (resp'.op = "verify_payment" /\ resp'.code = 200) =>
             LET had == EnrollmentRows(enrollments, resp'.who, payments[resp'.obj].course)
             IN IF had # {}
                THEN /\ Len(enrollments') = Len(enrollments)
                     /\ \A i \in had : enrollments'[i].is_active
                ELSE Len(enrollments') = Len(enrollments) + 1]_vars

C7_Witness ==
    /\ resp.op = "verify_payment"
    /\ resp.code = 200
    /\ resp.who = "u2"
    /\ Len(enrollments) = 2
    /\ enrollments[2].user = "u2"
    /\ enrollments[2].is_active

\* C8: approve changes the tables only for an admin and a pending refund
\* request; then the request is processed with a refund id, refund_amount =
\* the payment's amount and processed_at, the payment is refunded and the
\* enrollment of the payment's user in the payment's course is inactive.  A
\* non-admin gets 403 and a non-pending request 400, with nothing changed.
C8_ApproveOnlyAdminAndPending ==
    [][resp'.op = "approve" =>
          IF resp'.code = 200
          THEN LET j == resp'.obj
                   i == refunds[j].payment
               IN /\ resp'.who \in Admins
                  /\ refunds[j].status = "pending"
                  /\ refunds'[j].status = "processed"
                  /\ refunds'[j].razorpay_refund_id # 0
                  /\ refunds'[j].refund_amount = payments[i].amount
                  /\ refunds'[j].processed_at # 0
                  /\ payments'[i].status = "refunded"
                  /\ \A k \in DOMAIN enrollments' :
                        (/\ enrollments'[k].user = payments[i].user
                         /\ enrollments'[k].course = payments[i].course)
                        => ~enrollments'[k].is_active
          ELSE /\ refunds' = refunds
               /\ payments' = payments
               /\ enrollments' = enrollments
               /\ resp'.who \notin Admins => resp'.code = 403
               /\ (/\ resp'.who \in Admins
                   /\ resp'.obj \in DOMAIN refunds
                   /\ refunds[resp'.obj].status # "pending") => resp'.code = 400]_vars

C8_Witness ==
    /\ resp.op = "approve"
    /\ resp.code = 200
    /\ refunds[resp.obj].status = "processed"
    /\ payments[refunds[resp.obj].payment].status = "refunded"
    /\ ~enrollments[1].is_active

\* C9: a RefundRequest row is added only by a refund creation whose payment
\* belongs to the requester, is completed and has no refund request yet;
\* every other creation stores nothing, and no payment ever has two refund
\* requests.
C9_RefundOnlyForOwnCompletedPayment ==
    [][/\ refunds' # refunds /\ Len(refunds') # Len(refunds) =>
             /\ resp'.op = "refund_create"
             /\ resp'.code = 201
             /\ Len(refunds') = Len(refunds) + 1
             /\ refunds'[Len(refunds')].payment = resp'.obj
             /\ resp'.obj \in DOMAIN payments
             /\ payments[resp'.obj].user = resp'.who
             /\ payments[resp'.obj].status = "completed"
             /\ \A j \in DOMAIN refunds : refunds[j].payment # resp'.obj
       /\ (resp'.op = "refund_create" /\ resp'.code # 201) => refunds' = refunds
       /\ \A j, k \in DOMAIN refunds' :
             refunds'[j].payment = refunds'[k].payment => j = k]_vars

C9_Witness ==
    /\ resp.op = "refund_create"
    /\ resp.code = 201
    /\ \E j \in DOMAIN refunds :
          /\ refunds[j].payment = resp.obj
          /\ refunds[j].status = "pending"
          /\ payments[resp.obj].user = resp.who

(***************************************************************************)
(* Community: discussion posts                                             *)
(***************************************************************************)
\* user.is_staff or user.is_superuser
StaffUsers == {"admin"}
IsStaff(u) == u \in StaffUsers
CommunityUsers == Users \cup StaffUsers

\* The community.GroupMember rows the community specifications start with
\* (unique per community and user)
GroupMembers ==
    <<[community |-> "g1", user |-> "u1", role |-> "member", is_active |-> TRUE],
      [community |-> "g1", user |-> "u2", role |-> "moderator", is_active |-> TRUE],
      [community |-> "g1", user |-> "admin", role |-> "instructor", is_active |-> TRUE],
      [community |-> "g2", user |-> "u1", role |-> "member", is_active |-> TRUE],
      [community |-> "g2", user |-> "u2", role |-> "member", is_active |-> FALSE]>>

\* CommunityGroup.update_member_count: members.filter(is_active=True).count()
ActiveMemberCount(rows, g) ==
    Cardinality({m \in DOMAIN rows : rows[m].community = g /\ rows[m].is_active})

\* DiscussionPost.STATUS_CHOICES
PostStatuses == {"draft", "pending_approval", "published", "archived"}

\* community.members.filter(user=u)
Memberships(u, g) ==
    {m \in DOMAIN members :
        members[m].community = g /\ members[m].user = u}

\* community.members.filter(user=u, is_active=True).exists()
IsCommunityMember(u, g) ==
    \E m \in Memberships(u, g) : members[m].is_active

\* membership = community.members.filter(user=u).first();
\* membership and membership.role in ['instructor', 'moderator']
ModeratorRole(u, g) ==
    \E m \in Memberships(u, g) : members[m].role \in {"instructor", "moderator"}

CanModeratePost(u, p) == ModeratorRole(u, posts[p].community) \/ IsStaff(u)
CanEditOwnPost(u, p) ==
    posts[p].author = u \/ ModeratorRole(u, posts[p].community) \/ IsStaff(u)
CanDeleteOwnPost(u, p) ==
    posts[p].author = u \/ ModeratorRole(u, posts[p].community) \/ IsStaff(u)

\* CommunityGroupViewSet.get_queryset
CommunityVisible(u, g) ==
    \/ IsStaff(u)
    \/ ActiveEnrollments(u, CommunityCourse[g]) # {}
    \/ Memberships(u, g) # {}

\* DiscussionPostViewSet.get_queryset over queryset = filter(is_deleted=False)
PostVisible(u, p) ==
    /\ p \in DOMAIN posts
    /\ ~posts[p].is_deleted
    /\ IsStaff(u) \/ posts[p].status = "published"

\* GET posts: community.discussion_posts.filter(is_deleted=False, status='published')
ListedPosts(rows, g) ==
    {p \in DOMAIN rows :
        /\ rows[p].community = g
        /\ ~rows[p].is_deleted
        /\ rows[p].status = "published"}

\* CommunityGroup.update_post_count: discussion_posts.filter(is_deleted=False).count()
PostCount(rows, g) ==
    Cardinality({p \in DOMAIN rows : rows[p].community = g /\ ~rows[p].is_deleted})

\* CommunityGroupViewSet.posts, POST; status_in is the status of the request body
PostsCreate(u, g, status_in) ==
    /\ IF ~CommunityVisible(u, g)
       THEN /\ resp' = Response("posts_create", u, g, 404, "Not found.")
            /\ UNCHANGED <<now, posts, post_count>>
       ELSE IF ~IsCommunityMember(u, g)
       THEN /\ resp' = Response("posts_create", u, g, 403,
                                "You must be a member of this community.")
            /\ UNCHANGED <<now, posts, post_count>>
       ELSE /\ Len(posts) < MaxPosts
            /\ now < MaxPostTime
            /\ now' = now + 1
            /\ posts' = Append(posts,
                  [community |-> g, author |-> u, status |-> "published",
                   is_deleted |-> FALSE, moderation_notes |-> "",
                   created_at |-> now', updated_at |-> now', deleted_at |-> 0])
            /\ post_count' = [post_count EXCEPT ![g] = PostCount(posts', g)]
            /\ resp' = Response("posts_create", u, g, 201, "created")
    /\ UNCHANGED communityFrame

\* DiscussionPostViewSet.get_object: the queryset, then IsCommunityMember on
\* the post; the status code it ends the request with, 0 when it returns the post
GetPost(u, p) ==
    IF ~PostVisible(u, p) THEN 404
    ELSE IF ~IsCommunityMember(u, posts[p].community) THEN 403
    ELSE 0

\* DiscussionPostViewSet.update; the serializer writes status
PostUpdate(u, p, status_in) ==
    /\ IF GetPost(u, p) # 0
       THEN /\ resp' = Response("update", u, p, GetPost(u, p), "no access to the post")
            /\ UNCHANGED <<now, posts>>
       ELSE IF ~CanEditOwnPost(u, p)
       THEN /\ resp' = Response("update", u, p, 403,
                                "You do not have permission to edit this post.")
            /\ UNCHANGED <<now, posts>>
       ELSE /\ now < MaxPostTime
            /\ now' = now + 1
            /\ posts' = [posts EXCEPT ![p].status = status_in, ![p].updated_at = now']
            /\ resp' = Response("update", u, p, 200, "updated")
    /\ UNCHANGED <<post_count, communityFrame>>

\* DiscussionPostViewSet.destroy with DiscussionPost.soft_delete
PostDestroy(u, p) ==
    /\ IF GetPost(u, p) # 0
       THEN /\ resp' = Response("destroy", u, p, GetPost(u, p), "no access to the post")
            /\ UNCHANGED <<now, posts>>
       ELSE IF ~CanDeleteOwnPost(u, p)
       THEN /\ resp' = Response("destroy", u, p, 403,
                                "You do not have permission to delete this post.")
            /\ UNCHANGED <<now, posts>>
       ELSE /\ now < MaxPostTime
            /\ now' = now + 1
            /\ posts' = [posts EXCEPT ![p].is_deleted = TRUE, ![p].deleted_at = now']
            /\ resp' = Response("destroy", u, p, 204, "deleted")
    /\ UNCHANGED <<post_count, communityFrame>>

\* DiscussionPostViewSet.approve
PostApprove(u, p) ==
    /\ IF GetPost(u, p) # 0
       THEN /\ resp' = Response("post_approve", u, p, GetPost(u, p), "no access to the post")
            /\ UNCHANGED <<now, posts>>
       ELSE IF ~CanModeratePost(u, p)
       THEN /\ resp' = Response("post_approve", u, p, 403,
                                "You do not have permission to moderate posts.")
            /\ UNCHANGED <<now, posts>>
       ELSE IF posts[p].status # "pending_approval"
       THEN /\ resp' = Response("post_approve", u, p, 400,
                                "This post is not pending approval.")
            /\ UNCHANGED <<now, posts>>
       ELSE /\ now < MaxPostTime
            /\ now' = now + 1
            /\ posts' = [posts EXCEPT ![p].status = "published", ![p].updated_at = now']
            /\ resp' = Response("post_approve", u, p, 200, "Post approved.")
    /\ UNCHANGED <<post_count, communityFrame>>

\* DiscussionPostViewSet.reject; notes is request.data.get('notes', '')
PostReject(u, p, notes) ==
    /\ IF GetPost(u, p) # 0
       THEN /\ resp' = Response("post_reject", u, p, GetPost(u, p), "no access to the post")
            /\ UNCHANGED <<now, posts>>
       ELSE IF ~CanModeratePost(u, p)
       THEN /\ resp' = Response("post_reject", u, p, 403,
                                "You do not have permission to moderate posts.")
            /\ UNCHANGED <<now, posts>>
       ELSE IF posts[p].status # "pending_approval"
       THEN /\ resp' = Response("post_reject", u, p, 400,
                                "This post is not pending approval.")
            /\ UNCHANGED <<now, posts>>
       ELSE /\ now < MaxPostTime
            /\ now' = now + 1
            /\ posts' = [posts EXCEPT ![p].status = "draft",
                                      ![p].moderation_notes = notes,
                                      ![p].updated_at = now']
            /\ resp' = Response("post_reject", u, p, 200, "Post rejected.")
    /\ UNCHANGED <<post_count, communityFrame>>

\* u1 and u2 are enrolled in k1; nobody has posted yet
InitCommunity ==
    /\ now = 1
    /\ resp = Response("none", None, None, 0, "none")
    /\ enrollments = <<[user |-> "u1", course |-> "k1", is_active |-> TRUE],
                       [user |-> "u2", course |-> "k1", is_active |-> TRUE]>>
    /\ posts = <<>>
    /\ post_count = [g \in Communities |-> 0]
    /\ members = GroupMembers
    /\ member_count = [g \in Communities |-> ActiveMemberCount(GroupMembers, g)]
    /\ memberReq = EmptyBag
    /\ notifications = <<>>
    /\ notifReq = EmptyBag
    /\ messages = <<>>
    /\ broadcasts = <<>>
    /\ connections = {}
    /\ chatReq = EmptyBag
    /\ read_receipts = <<>>
    /\ receiptBroadcasts = <<>>
    /\ submissions = <<>>
    /\ passing_score = [z \in Quizzes |-> 70]
    /\ max_attempts = [z \in Quizzes |-> 3]
    /\ attempts = <<>>
    /\ answers = {}
    /\ startReq = EmptyBag
    /\ progress = <<>>
    /\ records = <<>>
    /\ payments = <<>>
    /\ refunds = <<>>
    /\ verifyReq = EmptyBag

PostIdInputs == 1..(Len(posts) + 1)
NotesInputs == {"", "off topic"}

NextCommunity ==
    \/ \E u \in CommunityUsers, g \in Communities, st \in PostStatuses : PostsCreate(u, g, st)
    \/ \E u \in CommunityUsers, p \in PostIdInputs, st \in PostStatuses : PostUpdate(u, p, st)
    \/ \E u \in CommunityUsers, p \in PostIdInputs : PostDestroy(u, p)
    \/ \E u \in CommunityUsers, p \in PostIdInputs : PostApprove(u, p)
    \/ \E u \in CommunityUsers, p \in PostIdInputs, n \in NotesInputs : PostReject(u, p, n)

SpecCommunity == InitCommunity /\ [][NextCommunity]_vars

(***************************************************************************)
(* Community: claims                                                       *)
(***************************************************************************)
\* C10: in a community whose require_post_approval is true, the post a
\* member has just created through the community posts endpoint is not in
\* status published and is not in the list the endpoint gives to members:
\* nobody has approved it yet.
C10_UnapprovedPostNotPublished ==
    [][(/\ resp'.op = "posts_create"
        /\ resp'.code = 201
        /\ require_post_approval[resp'.obj])
       => LET p == Len(posts')
          IN /\ posts'[p].status # "published"
             /\ p \notin ListedPosts(posts', resp'.obj)]_vars

\* C12: CommunityGroup.post_count of every community equals the number of
\* its discussion posts with is_deleted = false, after any sequence of post
\* creations and deletions.
C12_PostCountMatches ==
    \A g \in Communities : post_count[g] = PostCount(posts, g)

(***************************************************************************)
(* Community: join and leave                                               *)
(***************************************************************************)
\* GroupMember.objects.filter(community=g, user=u)
MemberRows(rows, u, g) ==
    {m \in DOMAIN rows : rows[m].community = g /\ rows[m].user = u}

\* CanJoinCommunity: an active enrollment in the community's course
CanJoinCommunity(u, g) == ActiveEnrollments(u, CommunityCourse[g]) # {}

MemberAlwaysCreate(rows, u, g) ==
    Append(rows, [community |-> g, user |-> u, role |-> "member", is_active |-> TRUE])

\* GroupMember.objects.get_or_create(community=g, user=u,
\* defaults={'role': 'member', 'is_active': True}), then is_active = True on
\* an inactive row that was there: the table after both
MemberGetOrCreate(rows, u, g) ==
    IF MemberRows(rows, u, g) # {}
    THEN [rows EXCEPT ![CHOOSE m \in MemberRows(rows, u, g) : TRUE].is_active = TRUE]
    ELSE Append(rows, [community |-> g, user |-> u, role |-> "member", is_active |-> TRUE])

\* A request that has written its membership and is inside
\* community.update_member_count(): pc says which statement is next
MemberRequest(op, u, g, pc, n) ==
    [op |-> op, user |-> u, community |-> g, pc |-> pc, n |-> n]

\* CommunityGroupViewSet.join up to community.update_member_count()
Join(u, g) ==
    /\ IF ~CommunityVisible(u, g)
       THEN /\ resp' = Response("join", u, g, 404, "Not found.")
            /\ UNCHANGED <<now, members, memberReq>>
       ELSE IF ~CanJoinCommunity(u, g)
       THEN /\ resp' = Response("join", u, g, 403,
                                "You must be enrolled in the course to join this community.")
            /\ UNCHANGED <<now, members, memberReq>>
       ELSE IF \E m \in MemberRows(members, u, g) : members[m].is_active
       THEN /\ resp' = Response("join", u, g, 400,
                                "You are already a member of this community.")
            /\ UNCHANGED <<now, members, memberReq>>
       ELSE /\ now < MaxMemberTime
            /\ BagCardinality(memberReq) < MaxInflight
            /\ now' = now + 1
            /\ members' = MemberGetOrCreate(members, u, g)
            /\ memberReq' = memberReq (+) SetToBag({MemberRequest("join", u, g, "count", 0)})
            /\ resp' = Response("join", u, g, 0, "membership written")
    /\ UNCHANGED <<member_count, memberFrame>>

\* CommunityGroupViewSet.leave up to community.update_member_count()
Leave(u, g) ==
    /\ IF ~CommunityVisible(u, g)
       THEN /\ resp' = Response("leave", u, g, 404, "Not found.")
            /\ UNCHANGED <<now, members, memberReq>>
       ELSE IF MemberRows(members, u, g) = {}
       THEN /\ resp' = Response("leave", u, g, 400,
                                "You are not a member of this community.")
            /\ UNCHANGED <<now, members, memberReq>>
       ELSE /\ now < MaxMemberTime
            /\ BagCardinality(memberReq) < MaxInflight
            /\ now' = now + 1
            /\ members' = [members EXCEPT
                  ![CHOOSE m \in MemberRows(members, u, g) : TRUE].is_active = FALSE]
            /\ memberReq' = memberReq (+) SetToBag({MemberRequest("leave", u, g, "count", 0)})
            /\ resp' = Response("leave", u, g, 0, "membership written")
    /\ UNCHANGED <<member_count, memberFrame>>

\* CommunityGroup.update_member_count, first statement:
\* self.member_count = self.members.filter(is_active=True).count()
UpdateMemberCountRead(r) ==
    /\ BagIn(r, memberReq)
    /\ r.pc = "count"
    /\ memberReq' = (memberReq (-) SetToBag({r})) (+)
                    SetToBag({MemberRequest(r.op, r.user, r.community, "save",
                                            ActiveMemberCount(members, r.community))})
    /\ UNCHANGED <<now, resp, members, member_count, memberFrame>>

\* CommunityGroup.update_member_count, second statement:
\* self.save(update_fields=['member_count']), and the response of join / leave
UpdateMemberCountSave(r) ==
    /\ BagIn(r, memberReq)
    /\ r.pc = "save"
    /\ member_count' = [member_count EXCEPT ![r.community] = r.n]
    /\ memberReq' = memberReq (-) SetToBag({r})
    /\ resp' = IF r.op = "join"
               THEN Response("join", r.user, r.community, 201,
                             "Successfully joined the community.")
               ELSE Response("leave", r.user, r.community, 200,
                             "Successfully left the community.")
    /\ UNCHANGED <<now, members, memberFrame>>

\* The members of the communities as in GroupMembers; u2 and the admin have
\* enrolled in k2 as well
InitMembers ==
    /\ now = 1
    /\ resp = Response("none", None, None, 0, "none")
    /\ enrollments = <<[user |-> "u1", course |-> "k1", is_active |-> TRUE],
                       [user |-> "u2", course |-> "k1", is_active |-> TRUE],
                       [user |-> "u2", course |-> "k2", is_active |-> TRUE],
                       [user |-> "admin", course |-> "k2", is_active |-> TRUE]>>
    /\ members = GroupMembers
    /\ member_count = [g \in Communities |-> ActiveMemberCount(GroupMembers, g)]
    /\ memberReq = EmptyBag
    /\ notifications = <<>>
    /\ notifReq = EmptyBag
    /\ messages = <<>>
    /\ broadcasts = <<>>
    /\ connections = {}
    /\ chatReq = EmptyBag
    /\ read_receipts = <<>>
    /\ receiptBroadcasts = <<>>
    /\ submissions = <<>>
    /\ posts = <<>>
    /\ post_count = [g \in Communities |-> 0]
    /\ passing_score = [z \in Quizzes |-> 70]
    /\ max_attempts = [z \in Quizzes |-> 3]
    /\ attempts = <<>>
    /\ answers = {}
    /\ startReq = EmptyBag
    /\ progress = <<>>
    /\ records = <<>>
    /\ payments = <<>>
    /\ refunds = <<>>
    /\ verifyReq = EmptyBag

NextMembers ==
    \/ \E u \in CommunityUsers, g \in Communities : Join(u, g)
    \/ \E u \in CommunityUsers, g \in Communities : Leave(u, g)
    \/ \E r \in BagToSet(memberReq) : UpdateMemberCountRead(r)
    \/ \E r \in BagToSet(memberReq) : UpdateMemberCountSave(r)

SpecMembers == InitMembers /\ [][NextMembers]_vars

(***************************************************************************)
(* Community: join and leave, claims                                       *)
(***************************************************************************)
\* GroupMember.Meta.unique_together = ['community', 'user']
UniqueMembers(rows) ==
    \A i, j \in DOMAIN rows :
        (rows[i].community = rows[j].community /\ rows[i].user = rows[j].user) => i = j

\* C11: whenever no join or leave request is in progress, member_count of
\* every community equals the number of its GroupMember rows with
\* is_active = true.
C11_MemberCountMatches ==
    memberReq = EmptyBag =>
        \A g \in Communities : member_count[g] = ActiveMemberCount(members, g)

\* C13: there is at most one GroupMember row per (community, user) after
\* every step, and a join that writes the membership of a user who has a row
\* adds no row, sets that row active and leaves its role as it was; a join of
\* a user without a row adds one active row with role member.
C13_OneMembershipPerUser ==
    [][/\ UniqueMembers(members')
       /\ (resp'.op = "join" /\ resp'.code = 0 /\ members' # members) =>
             LET had == MemberRows(members, resp'.who, resp'.obj)
             IN IF had # {}
                THEN /\ Len(members') = Len(members)
                     /\ \A m \in had : /\ members'[m].is_active
                                       /\ members'[m].role = members[m].role
                ELSE /\ Len(members') = Len(members) + 1
                     /\ members'[Len(members')] =
                           [community |-> resp'.obj, user |-> resp'.who,
                            role |-> "member", is_active |-> TRUE]]_vars

\* u2, moderator of g1, has left g1 and joined again
C13_Witness ==
    /\ resp.op = "join"
    /\ resp.code = 201
    /\ resp.who = "u2"
    /\ resp.obj = "g1"
    /\ now = 3
    /\ Len(members) = Len(GroupMembers)
    /\ \E m \in MemberRows(members, "u2", "g1") :
          members[m].is_active /\ members[m].role = "moderator"

(***************************************************************************)
(* Notifications                                                           *)
(***************************************************************************)
\* now advances with every write of the notification handlers
NotifUsers == Users \cup Admins
\* read_at = None
NoTime == 0

\* Notification(user=u, ..., is_sent=True) with the defaults of is_read and read_at
NewNotification(u) == [user |-> u, is_read |-> FALSE, read_at |-> NoTime, is_sent |-> TRUE]

\* Notification.objects.filter(user=u, is_read=False)
UnreadOf(rows, u) == {n \in DOMAIN rows : rows[n].user = u /\ ~rows[n].is_read}

\* Notification.objects.get(id=n, user=u) raises DoesNotExist
NotificationMissing(u, n) == n \notin DOMAIN notifications \/ notifications[n].user # u

\* A request that holds the instance it has read and is about to save it
MarkRequest(op, u, n) == [op |-> op, user |-> u, notification |-> n]

\* NotificationViewSet.mark_as_read with Notification.mark_as_read, up to the save
MarkAsReadGet(u, n) ==
    /\ IF NotificationMissing(u, n)
       THEN /\ resp' = Response("mark_as_read", u, n, 404, "Notification not found")
            /\ UNCHANGED notifReq
       ELSE IF notifications[n].is_read
       THEN /\ resp' = Response("mark_as_read", u, n, 200, "Notification marked as read")
            /\ UNCHANGED notifReq
       ELSE /\ BagCardinality(notifReq) < MaxMarkInflight
            /\ notifReq' = notifReq (+) SetToBag({MarkRequest("mark_as_read", u, n)})
            /\ resp' = Response("mark_as_read", u, n, 0, "instance read")
    /\ UNCHANGED <<now, notifications, notifFrame>>

\* Notification.mark_as_read: is_read = True, read_at = timezone.now(),
\* save(update_fields=['is_read', 'read_at'])
MarkAsReadSave(r) ==
    /\ BagIn(r, notifReq)
    /\ r.op = "mark_as_read"
    /\ now < MaxNotifTime
    /\ now' = now + 1
    /\ notifications' = [notifications EXCEPT ![r.notification].is_read = TRUE,
                                              ![r.notification].read_at = now']
    /\ notifReq' = notifReq (-) SetToBag({r})
    /\ resp' = Response("mark_as_read", r.user, r.notification, 200,
                        "Notification marked as read")
    /\ UNCHANGED notifFrame

\* NotificationViewSet.mark_as_unread with Notification.mark_as_unread, up to the save
MarkAsUnreadGet(u, n) ==
    /\ IF NotificationMissing(u, n)
       THEN /\ resp' = Response("mark_as_unread", u, n, 404, "Notification not found")
            /\ UNCHANGED notifReq
       ELSE IF ~notifications[n].is_read
       THEN /\ resp' = Response("mark_as_unread", u, n, 200, "Notification marked as unread")
            /\ UNCHANGED notifReq
       ELSE /\ BagCardinality(notifReq) < MaxMarkInflight
            /\ notifReq' = notifReq (+) SetToBag({MarkRequest("mark_as_unread", u, n)})
            /\ resp' = Response("mark_as_unread", u, n, 0, "instance read")
    /\ UNCHANGED <<now, notifications, notifFrame>>

UnreadFieldsKeepReadAt(row) == [row EXCEPT !.is_read = FALSE]
\* Notification.mark_as_unread: is_read = False, read_at = None
UnreadFields(row) == [row EXCEPT !.is_read = FALSE, !.read_at = NoTime]

\* Notification.mark_as_unread: save(update_fields=['is_read', 'read_at'])
MarkAsUnreadSave(r) ==
    /\ BagIn(r, notifReq)
    /\ r.op = "mark_as_unread"
    /\ now < MaxNotifTime
    /\ now' = now + 1
    /\ notifications' = [notifications EXCEPT
                            ![r.notification] = UnreadFields(notifications[r.notification])]
    /\ notifReq' = notifReq (-) SetToBag({r})
    /\ resp' = Response("mark_as_unread", r.user, r.notification, 200,
                        "Notification marked as unread")
    /\ UNCHANGED notifFrame

\* NotificationViewSet.mark_all_as_read: one UPDATE over filter(user=u, is_read=False)
MarkAllAsRead(u) ==
    /\ now < MaxNotifTime
    /\ now' = now + 1
    /\ notifications' = [n \in DOMAIN notifications |->
                            IF n \in UnreadOf(notifications, u)
                            THEN [notifications[n] EXCEPT !.is_read = TRUE, !.read_at = now']
                            ELSE notifications[n]]
    /\ resp' = Response("mark_all_as_read", u, None, 200, "success")
    /\ UNCHANGED <<notifReq, notifFrame>>

\* NotificationViewSet.create (ModelViewSet.create with NotificationCreateSerializer):
\* permission_classes = [IsAuthenticated]; target is the serializer's field user
NotificationCreate(u, target) ==
    /\ Len(notifications) < MaxNotifications
    /\ now < MaxNotifTime
    /\ now' = now + 1
    /\ notifications' = Append(notifications, NewNotification(target))
    /\ resp' = Response("notification_create", u, target, 201, "created")
    /\ UNCHANGED <<notifReq, notifFrame>>

RECURSIVE NewNotifications(_)
\* the list bulk_create builds, one Notification per user
NewNotifications(targets) ==
    IF targets = <<>> THEN <<>>
    ELSE <<NewNotification(Head(targets))>> \o NewNotifications(Tail(targets))

\* NotificationViewSet.bulk_create; type_found: NotificationType.objects.get found it
BulkCreate(u, targets, type_found) ==
    /\ IF ~type_found
       THEN /\ resp' = Response("bulk_create", u, None, 404, "NotificationType not found")
            /\ UNCHANGED <<now, notifications>>
       ELSE /\ Len(notifications) + Len(targets) <= MaxNotifications
            /\ now < MaxNotifTime
            /\ now' = now + 1
            /\ notifications' = notifications \o NewNotifications(targets)
            /\ resp' = Response("bulk_create", u, None, 201, "success")
    /\ UNCHANGED <<notifReq, notifFrame>>

\* u1 and u2 have one unread notification each
InitNotifications ==
    /\ now = 1
    /\ resp = Response("none", None, None, 0, "none")
    /\ notifications = <<NewNotification("u1"), NewNotification("u2")>>
    /\ notifReq = EmptyBag
    /\ messages = <<>>
    /\ broadcasts = <<>>
    /\ connections = {}
    /\ chatReq = EmptyBag
    /\ read_receipts = <<>>
    /\ receiptBroadcasts = <<>>
    /\ submissions = <<>>
    /\ enrollments = <<>>
    /\ members = <<>>
    /\ member_count = [g \in Communities |-> 0]
    /\ memberReq = EmptyBag
    /\ posts = <<>>
    /\ post_count = [g \in Communities |-> 0]
    /\ passing_score = [z \in Quizzes |-> 70]
    /\ max_attempts = [z \in Quizzes |-> 3]
    /\ attempts = <<>>
    /\ answers = {}
    /\ startReq = EmptyBag
    /\ progress = <<>>
    /\ records = <<>>
    /\ payments = <<>>
    /\ refunds = <<>>
    /\ verifyReq = EmptyBag

NotificationIdInputs == 1..(Len(notifications) + 1)
BulkTargets == {<<"u1">>, <<"u2", "u1">>}

NextNotifications ==
    \/ \E u \in NotifUsers, n \in NotificationIdInputs : MarkAsReadGet(u, n)
    \/ \E r \in BagToSet(notifReq) : MarkAsReadSave(r)
    \/ \E u \in NotifUsers, n \in NotificationIdInputs : MarkAsUnreadGet(u, n)
    \/ \E r \in BagToSet(notifReq) : MarkAsUnreadSave(r)
    \/ \E u \in NotifUsers : MarkAllAsRead(u)
    \/ \E u \in NotifUsers, target \in NotifUsers : NotificationCreate(u, target)
    \/ \E u \in NotifUsers, targets \in BulkTargets, found \in BOOLEAN :
          BulkCreate(u, targets, found)

SpecNotifications == InitNotifications /\ [][NextNotifications]_vars

(***************************************************************************)
(* Notifications: claims                                                   *)
(***************************************************************************)
\* C14: after every step of the mark_as_read, mark_as_unread and
\* mark_all_as_read handlers (and of the creations) every Notification has
\* is_read = true exactly when read_at is set; a mark_as_read that answers 200
\* leaves the notification read with read_at set and a mark_as_unread that
\* answers 200 leaves it unread with read_at = null; mark_all_as_read by a
\* user leaves that user without unread notifications and changes no
\* notification of another user.
C14_ReadIffReadAt ==
    [][/\ \A n \in DOMAIN notifications' :
             notifications'[n].is_read <=> (notifications'[n].read_at # NoTime)
       /\ (resp'.op = "mark_as_read" /\ resp'.code = 200) =>
             /\ notifications'[resp'.obj].is_read
             /\ notifications'[resp'.obj].read_at # NoTime
       /\ (resp'.op = "mark_as_unread" /\ resp'.code = 200) =>
             /\ ~notifications'[resp'.obj].is_read
             /\ notifications'[resp'.obj].read_at = NoTime
       /\ resp'.op = "mark_all_as_read" =>
             /\ UnreadOf(notifications', resp'.who) = {}
             /\ Len(notifications') = Len(notifications)
             /\ \A n \in DOMAIN notifications :
                   notifications[n].user # resp'.who => notifications'[n] = notifications[n]]_vars

\* u1 has marked its notification as read and then as unread
C14_Witness ==
    /\ resp.op = "mark_as_unread"
    /\ resp.code = 200
    /\ resp.who = "u1"
    /\ now > 1
    /\ notifReq = EmptyBag
    /\ ~notifications[resp.obj].is_read
    /\ notifications[resp.obj].read_at = NoTime

\* C15: a Notification row is added only by a request of an admin user.
C15_OnlyAdminsCreate ==
    [][Len(notifications') > Len(notifications) => resp'.who \in Admins]_vars

(***************************************************************************)
(* Community: chat                                                         *)
(***************************************************************************)
\* now advances with every write of the chat handlers
\* the users of the chat: u1 is an active member of g2, admin is no member of it
ChatUsers == {"u1", "admin"}
\* the community of the chat: the room of ws/community/chat/<community_id>/ and
\* the community field of the messages posted over REST
ChatCommunities == {"g2"}
MessageTexts == {"", "hi"}

\* ChatMessage.objects.create(community, sender, message, status)
NewMessage(g, u, text, st, via) ==
    [community |-> g, sender |-> u, message |-> text, status |-> st, read_at |-> NoTime,
     is_edited |-> FALSE, is_deleted |-> FALSE, via |-> via]

\* the channels of group chat_<g>
GroupChannels(g) == {u \in ChatUsers : <<u, g>> \in connections}

\* ChatConsumer.connect: every authenticated user is added to the group
Connect(u, g) ==
    /\ <<u, g>> \notin connections
    /\ connections' = connections \cup {<<u, g>>}
    /\ UNCHANGED <<now, resp, messages, broadcasts, chatReq, read_receipts, receiptBroadcasts, chatFrame>>

IsEmptyNever(text) == FALSE
\* if not message
IsEmpty(text) == text = ""

\* ChatConsumer.handle_chat_message up to the return of save_chat_message;
\* save_ok: ChatMessage.objects.create did not raise
HandleChatMessage(u, g, text, save_ok) ==
    /\ <<u, g>> \in connections
    /\ IF IsEmpty(text)
       THEN /\ resp' = Response("chat_message", u, g, 0, "Message cannot be empty")
            /\ UNCHANGED <<now, messages, chatReq>>
       ELSE IF ~save_ok
       THEN /\ resp' = Response("chat_message", u, g, 0, "Error saving chat message")
            /\ UNCHANGED <<now, messages, chatReq>>
       ELSE /\ Len(messages) < MaxMessages
            /\ now < MaxChatTime
            /\ BagCardinality(chatReq) < MaxChatInflight
            /\ now' = now + 1
            /\ messages' = Append(messages, NewMessage(g, u, text, "delivered", "ws"))
            /\ chatReq' = chatReq (+) SetToBag(
                  {[message_id |-> Len(messages) + 1, sender_id |-> u, group |-> g]})
            /\ resp' = Response("chat_message", u, g, 0, "saved")
    /\ UNCHANGED <<broadcasts, connections, read_receipts, receiptBroadcasts, chatFrame>>

\* ChatConsumer.handle_chat_message: channel_layer.group_send(room_group_name,
\* {'type': 'chat_message_broadcast', ...}); receivers are the channels of the group
GroupSend(r) ==
    /\ BagIn(r, chatReq)
    /\ broadcasts' = Append(broadcasts,
          [message_id |-> r.message_id, sender_id |-> r.sender_id, group |-> r.group,
           receivers |-> GroupChannels(r.group)])
    /\ chatReq' = chatReq (-) SetToBag({r})
    /\ resp' = Response("chat_message", r.sender_id, r.group, 0, "broadcast")
    /\ UNCHANGED <<now, messages, connections, read_receipts, receiptBroadcasts, chatFrame>>

\* ChatMessageViewSet.create: permission_classes run has_permission only, and
\* IsCommunityMember defines has_object_permission only
ChatCreate(u, g, text) ==
    /\ IF text = ""
       THEN /\ resp' = Response("chat_create", u, g, 400, "This field may not be blank.")
            /\ UNCHANGED <<now, messages>>
       ELSE /\ Len(messages) < MaxMessages
            /\ now < MaxChatTime
            /\ now' = now + 1
            /\ messages' = Append(messages, NewMessage(g, u, text, "sent", "rest"))
            /\ resp' = Response("chat_create", u, g, 201, "created")
    /\ UNCHANGED <<broadcasts, connections, chatReq, read_receipts, receiptBroadcasts, chatFrame>>

\* ChatMessageViewSet.get_object: queryset filter(is_deleted=False), then
\* IsCommunityMember on the message; 0 when it returns the message
GetMessage(u, m) ==
    IF m \notin DOMAIN messages \/ messages[m].is_deleted THEN 404
    ELSE IF ~IsCommunityMember(u, messages[m].community) THEN 403
    ELSE 0

MarkedAsReadAlways(row, t) == [row EXCEPT !.status = "read", !.read_at = t]
\* ChatMessage.mark_as_read
MarkedAsRead(row, t) ==
    IF row.status # "read" THEN [row EXCEPT !.status = "read", !.read_at = t] ELSE row

\* ChatMessage.mark_as_delivered
MarkedAsDelivered(row) ==
    IF row.status = "sent" THEN [row EXCEPT !.status = "delivered"] ELSE row

\* ChatMessageReadReceipt.objects.get_or_create(message=m, user=u), under
\* unique_together (message, user)
ReceiptGetOrCreate(rows, m, u) ==
    IF \E i \in DOMAIN rows : rows[i].message = m /\ rows[i].user = u
    THEN rows
    ELSE Append(rows, [message |-> m, user |-> u])

\* ChatMessageViewSet.mark_as_read
ChatMarkAsRead(u, m) ==
    /\ IF GetMessage(u, m) # 0
       THEN /\ resp' = Response("chat_mark_as_read", u, m, GetMessage(u, m), "no access")
            /\ UNCHANGED <<now, messages, read_receipts>>
       ELSE /\ now < MaxChatTime
            /\ now' = now + 1
            /\ messages' = [messages EXCEPT ![m] = MarkedAsRead(messages[m], now')]
            /\ read_receipts' = ReceiptGetOrCreate(read_receipts, m, u)
            /\ resp' = Response("chat_mark_as_read", u, m, 200, "Message marked as read.")
    /\ UNCHANGED <<broadcasts, connections, chatReq, receiptBroadcasts, chatFrame>>

\* ChatConsumer.handle_read_receipt with save_read_receipt: the message is
\* looked up by its id alone, ChatMessage.DoesNotExist is logged, and the
\* group_send follows in either case, stamped timezone.now()
HandleReadReceipt(u, g, m) ==
    /\ <<u, g>> \in connections
    /\ now < MaxChatTime
    /\ now' = now + 1
    /\ IF m \notin DOMAIN messages
       THEN /\ resp' = Response("read_receipt", u, m, 0, "Message not found")
            /\ UNCHANGED <<messages, read_receipts>>
       ELSE /\ messages' = [messages EXCEPT ![m] = MarkedAsRead(messages[m], now')]
            /\ read_receipts' = ReceiptGetOrCreate(read_receipts, m, u)
            /\ resp' = Response("read_receipt", u, m, 0, "read")
    /\ receiptBroadcasts' = Append(receiptBroadcasts,
          [message_id |-> m, user_id |-> u, group |-> g, timestamp |-> now'])
    /\ UNCHANGED <<broadcasts, connections, chatReq, chatFrame>>

\* ChatMessage.mark_as_delivered (a model method; no handler calls it)
ChatMarkAsDelivered(m) ==
    /\ m \in DOMAIN messages
    /\ now < MaxChatTime
    /\ now' = now + 1
    /\ messages' = [messages EXCEPT ![m] = MarkedAsDelivered(messages[m])]
    /\ resp' = Response("mark_as_delivered", None, m, 0, "done")
    /\ UNCHANGED <<broadcasts, connections, chatReq, read_receipts, receiptBroadcasts, chatFrame>>

\* ChatMessageViewSet.update with ChatMessage.edit_message
ChatUpdate(u, m, new_message) ==
    /\ IF GetMessage(u, m) # 0
       THEN /\ resp' = Response("chat_update", u, m, GetMessage(u, m), "no access")
            /\ UNCHANGED <<now, messages>>
       ELSE IF messages[m].sender # u
       THEN /\ resp' = Response("chat_update", u, m, 403,
                                "You can only edit your own messages.")
            /\ UNCHANGED <<now, messages>>
       ELSE IF new_message = ""
       THEN /\ resp' = Response("chat_update", u, m, 200, "unchanged")
            /\ UNCHANGED <<now, messages>>
       ELSE /\ now < MaxChatTime
            /\ now' = now + 1
            /\ messages' = [messages EXCEPT ![m].message = new_message,
                                            ![m].is_edited = TRUE]
            /\ resp' = Response("chat_update", u, m, 200, "edited")
    /\ UNCHANGED <<broadcasts, connections, chatReq, read_receipts, receiptBroadcasts, chatFrame>>

\* ChatMessageViewSet.destroy with ChatMessage.soft_delete
ChatDestroy(u, m) ==
    /\ IF GetMessage(u, m) # 0
       THEN /\ resp' = Response("chat_destroy", u, m, GetMessage(u, m), "no access")
            /\ UNCHANGED <<now, messages>>
       ELSE IF messages[m].sender # u
       THEN /\ resp' = Response("chat_destroy", u, m, 403,
                                "You can only delete your own messages.")
            /\ UNCHANGED <<now, messages>>
       ELSE /\ now < MaxChatTime
            /\ now' = now + 1
            /\ messages' = [messages EXCEPT ![m].is_deleted = TRUE]
            /\ resp' = Response("chat_destroy", u, m, 204, "deleted")
    /\ UNCHANGED <<broadcasts, connections, chatReq, read_receipts, receiptBroadcasts, chatFrame>>

\* The members as in GroupMembers; u1 has sent one message to g2 over REST
InitChat ==
    /\ now = 1
    /\ resp = Response("none", None, None, 0, "none")
    /\ messages = <<NewMessage("g2", "u1", "hi", "sent", "rest")>>
    /\ broadcasts = <<>>
    /\ connections = {}
    /\ chatReq = EmptyBag
    /\ read_receipts = <<>>
    /\ receiptBroadcasts = <<>>
    /\ submissions = <<>>
    /\ enrollments = <<[user |-> "u1", course |-> "k1", is_active |-> TRUE],
                       [user |-> "u2", course |-> "k1", is_active |-> TRUE]>>
    /\ members = GroupMembers
    /\ member_count = [g \in Communities |-> ActiveMemberCount(GroupMembers, g)]
    /\ memberReq = EmptyBag
    /\ notifications = <<>>
    /\ notifReq = EmptyBag
    /\ posts = <<>>
    /\ post_count = [g \in Communities |-> 0]
    /\ passing_score = [z \in Quizzes |-> 70]
    /\ max_attempts = [z \in Quizzes |-> 3]
    /\ attempts = <<>>
    /\ answers = {}
    /\ startReq = EmptyBag
    /\ progress = <<>>
    /\ records = <<>>
    /\ payments = <<>>
    /\ refunds = <<>>
    /\ verifyReq = EmptyBag

MessageIdInputs == 1..(Len(messages) + 1)

NextChat ==
    \/ \E u \in ChatUsers, g \in ChatCommunities : Connect(u, g)
    \/ \E u \in ChatUsers, g \in ChatCommunities, text \in MessageTexts, ok \in BOOLEAN :
          HandleChatMessage(u, g, text, ok)
    \/ \E r \in BagToSet(chatReq) : GroupSend(r)
    \/ \E u \in ChatUsers, g \in ChatCommunities, text \in MessageTexts : ChatCreate(u, g, text)
    \/ \E u \in ChatUsers, m \in MessageIdInputs : ChatMarkAsRead(u, m)
    \/ \E u \in ChatUsers, g \in ChatCommunities, m \in MessageIdInputs : HandleReadReceipt(u, g, m)
    \/ \E m \in MessageIdInputs : ChatMarkAsDelivered(m)
    \/ \E u \in ChatUsers, m \in MessageIdInputs, text \in MessageTexts : ChatUpdate(u, m, text)
    \/ \E u \in ChatUsers, m \in MessageIdInputs : ChatDestroy(u, m)

SpecChat == InitChat /\ [][NextChat]_vars

StatusRank(st) == CASE st = "sent" -> 1 [] st = "delivered" -> 2 [] st = "read" -> 3

\* C16: a message's status only moves forward along sent, delivered, read:
\* mark_as_delivered changes only a message that is sent, mark_as_read leaves
\* the message read with a read_at, and a message that is read stays read with
\* its original read_at under any later mark_as_read, mark_as_delivered, edit
\* or soft delete.
C16_StatusOnlyMovesForward ==
    [][/\ \A m \in DOMAIN messages :
            /\ StatusRank(messages'[m].status) >= StatusRank(messages[m].status)
            /\ messages[m].status = "read" =>
                  /\ messages'[m].status = "read"
                  /\ messages'[m].read_at = messages[m].read_at
       /\ resp'.op = "mark_as_delivered" =>
            \A m \in DOMAIN messages :
                messages'[m] # messages[m] =>
                    /\ messages[m].status = "sent"
                    /\ messages'[m].status = "delivered"
       /\ ((resp'.op = "chat_mark_as_read" /\ resp'.code = 200)
           \/ (resp'.op = "read_receipt" /\ resp'.err = "read")) =>
            /\ messages'[resp'.obj].status = "read"
            /\ messages'[resp'.obj].read_at # NoTime]_vars

\* a message that was read at an earlier time has just been marked as read again
C16_Witness ==
    /\ resp.op \in {"chat_mark_as_read", "read_receipt"}
    /\ resp.err \in {"Message marked as read.", "read"}
    /\ messages[resp.obj].status = "read"
    /\ messages[resp.obj].read_at < now

WsMessages == {m \in DOMAIN messages : messages[m].via = "ws"}

\* C18: an incoming chat message with empty text, or one whose save fails, is
\* neither stored nor broadcast; every broadcast names a stored message of the
\* same room and sender, no message is broadcast twice, and once no handler is
\* between its save and its send there is one broadcast for each message
\* stored over the socket.
C18_OneStoredOneBroadcast ==
    [][/\ (resp'.op = "chat_message"
           /\ resp'.err \in {"Message cannot be empty", "Error saving chat message"}) =>
            /\ messages' = messages
            /\ broadcasts' = broadcasts
            /\ chatReq' = chatReq
       /\ \A m \in WsMessages' : messages'[m].message # ""
       /\ \A b \in DOMAIN broadcasts' :
            /\ broadcasts'[b].message_id \in WsMessages'
            /\ messages'[broadcasts'[b].message_id].community = broadcasts'[b].group
            /\ messages'[broadcasts'[b].message_id].sender = broadcasts'[b].sender_id
            /\ \A c \in DOMAIN broadcasts' :
                  broadcasts'[c].message_id = broadcasts'[b].message_id => c = b
       /\ chatReq' = EmptyBag => Len(broadcasts') = Cardinality(WsMessages')]_vars

\* a message stored over the socket has been broadcast
C18_Witness ==
    /\ resp.op = "chat_message"
    /\ resp.err = "broadcast"
    /\ chatReq = EmptyBag
    /\ Len(broadcasts) = 1
    /\ messages[broadcasts[1].message_id].message = "hi"

\* C20: a user who is not an active member of a community can neither store a
\* chat message in it nor receive its broadcasts.
C20_ChatOnlyForActiveMembers ==
    [][/\ Len(messages') > Len(messages) =>
            IsCommunityMember(messages'[Len(messages')].sender,
                              messages'[Len(messages')].community)
       /\ Len(broadcasts') > Len(broadcasts) =>
            \A u \in broadcasts'[Len(broadcasts')].receivers :
                IsCommunityMember(u, broadcasts'[Len(broadcasts')].group)]_vars

\* C21: every read receipt broadcast names a message that exists and belongs
\* to the community of the group it was sent to, and a ChatMessageReadReceipt
\* of that message and user is stored; no (message, user) has two read
\* receipts.
C21_ReadReceiptBroadcastOnlyWhenStored ==
    /\ \A b \in DOMAIN receiptBroadcasts :
          /\ receiptBroadcasts[b].message_id \in DOMAIN messages
          /\ messages[receiptBroadcasts[b].message_id].community = receiptBroadcasts[b].group
          /\ \E i \in DOMAIN read_receipts :
                /\ read_receipts[i].message = receiptBroadcasts[b].message_id
                /\ read_receipts[i].user = receiptBroadcasts[b].user_id
    /\ \A i, j \in DOMAIN read_receipts :
          (/\ read_receipts[i].message = read_receipts[j].message
           /\ read_receipts[i].user = read_receipts[j].user) => i = j

(***************************************************************************)
(* Assignments: submissions                                                *)
(***************************************************************************)
\* now advances with every write of the assignment handlers
AssignmentUsers == Users \cup Admins
\* accounts.User.role
Role(u) == IF u \in Admins THEN "admin" ELSE "student"
Assignments == {"a1"}
\* Assignment.created_by
created_by == [a \in Assignments |-> "admin"]
SubmissionTexts == {"t1", "t2"}
\* the values a student sends for the writable field status
StatusInputs == {"submitted", "grading"}
GradeInputs == {None, "80"}

\* Enrollment.objects.filter(student=user, status='active'): courses.Enrollment
\* has the fields user and is_active and neither student nor status, so the
\* filter raises FieldError
StudentEnrollmentFilter(u) == "FieldError"

NewSubmission(a, u) ==
    [assignment |-> a, student |-> u, submission_text |-> "", status |-> "submitted",
     is_graded |-> FALSE, grade |-> None]

SubmissionRows(a, u) ==
    {i \in DOMAIN submissions : submissions[i].assignment = a /\ submissions[i].student = u}

\* AssignmentViewSet.submit
AssignmentSubmit(u, a, text) ==
    /\ IF Role(u) # "student"
       THEN /\ resp' = Response("assignment_submit", u, a, 403, "permission denied")
            /\ UNCHANGED <<now, submissions>>
       ELSE IF StudentEnrollmentFilter(u) = "FieldError"
       THEN /\ resp' = Response("assignment_submit", u, a, 500, "FieldError")
            /\ UNCHANGED <<now, submissions>>
       ELSE /\ now < MaxSubmissionTime
            /\ now' = now + 1
            /\ IF SubmissionRows(a, u) = {}
               THEN /\ submissions' = Append(submissions,
                          [NewSubmission(a, u) EXCEPT !.submission_text = text])
                    /\ resp' = Response("assignment_submit", u, a, 201, "created")
               ELSE /\ LET i == CHOOSE j \in SubmissionRows(a, u) : TRUE
                       IN submissions' = [submissions EXCEPT ![i].submission_text = text,
                                                              ![i].status = "submitted"]
                    /\ resp' = Response("assignment_submit", u, a, 200, "updated")
    /\ UNCHANGED <<assignFrame>>

\* AssignmentSubmissionViewSet.get_queryset with get_object
SubmissionVisible(u, i) ==
    /\ i \in DOMAIN submissions
    /\ \/ Role(u) = "admin"
       \/ Role(u) = "student" /\ submissions[i].student = u

CanEditGradedToo(row) == FALSE
\* if submission.is_graded
EditBlocked(row) == row.is_graded

\* AssignmentSubmissionViewSet.update; AssignmentSubmissionListSerializer has the
\* writable fields status and grade and no field submission_text
SubmissionUpdate(u, i, status_in, grade_in) ==
    /\ IF ~SubmissionVisible(u, i)
       THEN /\ resp' = Response("submission_update", u, i, 404, "Not found.")
            /\ UNCHANGED <<now, submissions>>
       ELSE IF submissions[i].student # u
       THEN /\ resp' = Response("submission_update", u, i, 403,
                                "You can only edit your own submissions.")
            /\ UNCHANGED <<now, submissions>>
       ELSE IF EditBlocked(submissions[i])
       THEN /\ resp' = Response("submission_update", u, i, 400,
                                "Cannot edit a submission that has been graded.")
            /\ UNCHANGED <<now, submissions>>
       ELSE /\ now < MaxSubmissionTime
            /\ now' = now + 1
            /\ submissions' = [submissions EXCEPT ![i].status = status_in,
                                                  ![i].grade = grade_in]
            /\ resp' = Response("submission_update", u, i, 200, "updated")
    /\ UNCHANGED <<assignFrame>>

\* admin, or the creator of the assignment
CanGrade(u, i) == Role(u) = "admin" \/ created_by[submissions[i].assignment] = u

\* AssignmentSubmissionViewSet.grade
Grade(u, i, grade_in) ==
    /\ IF ~SubmissionVisible(u, i)
       THEN /\ resp' = Response("grade", u, i, 404, "Not found.")
            /\ UNCHANGED <<now, submissions>>
       ELSE IF ~CanGrade(u, i)
       THEN /\ resp' = Response("grade", u, i, 403,
                                "You do not have permission to grade this submission.")
            /\ UNCHANGED <<now, submissions>>
       ELSE /\ now < MaxSubmissionTime
            /\ now' = now + 1
            /\ submissions' =
                  IF grade_in # None
                  THEN [submissions EXCEPT ![i].grade = grade_in,
                                           ![i].is_graded = TRUE,
                                           ![i].status = "graded"]
                  ELSE submissions
            /\ resp' = Response("grade", u, i, 200, "graded")
    /\ UNCHANGED <<assignFrame>>

\* AssignmentSubmissionViewSet.return_for_revision
ReturnForRevision(u, i) ==
    /\ IF ~SubmissionVisible(u, i)
       THEN /\ resp' = Response("return_for_revision", u, i, 404, "Not found.")
            /\ UNCHANGED <<now, submissions>>
       ELSE IF ~CanGrade(u, i)
       THEN /\ resp' = Response("return_for_revision", u, i, 403,
                                "You do not have permission to return this submission.")
            /\ UNCHANGED <<now, submissions>>
       ELSE /\ now < MaxSubmissionTime
            /\ now' = now + 1
            /\ submissions' = [submissions EXCEPT ![i].status = "returned",
                                                  ![i].is_graded = FALSE]
            /\ resp' = Response("return_for_revision", u, i, 200, "returned")
    /\ UNCHANGED <<assignFrame>>

\* u1 and u2 have one ungraded submission each for a1
InitAssignments ==
    /\ now = 1
    /\ resp = Response("none", None, None, 0, "none")
    /\ submissions = <<[NewSubmission("a1", "u1") EXCEPT !.submission_text = "t1"],
                       [NewSubmission("a1", "u2") EXCEPT !.submission_text = "t1"]>>
    /\ messages = <<>>
    /\ broadcasts = <<>>
    /\ connections = {}
    /\ chatReq = EmptyBag
    /\ read_receipts = <<>>
    /\ receiptBroadcasts = <<>>
    /\ enrollments = <<[user |-> "u1", course |-> "k1", is_active |-> TRUE],
                       [user |-> "u2", course |-> "k1", is_active |-> TRUE]>>
    /\ members = <<>>
    /\ member_count = [g \in Communities |-> 0]
    /\ memberReq = EmptyBag
    /\ notifications = <<>>
    /\ notifReq = EmptyBag
    /\ posts = <<>>
    /\ post_count = [g \in Communities |-> 0]
    /\ passing_score = [z \in Quizzes |-> 70]
    /\ max_attempts = [z \in Quizzes |-> 3]
    /\ attempts = <<>>
    /\ answers = {}
    /\ startReq = EmptyBag
    /\ progress = <<>>
    /\ records = <<>>
    /\ payments = <<>>
    /\ refunds = <<>>
    /\ verifyReq = EmptyBag

SubmissionIdInputs == 1..(Len(submissions) + 1)

NextAssignments ==
    \/ \E u \in AssignmentUsers, a \in Assignments, text \in SubmissionTexts :
          AssignmentSubmit(u, a, text)
    \/ \E u \in AssignmentUsers, i \in SubmissionIdInputs, st \in StatusInputs,
          gr \in GradeInputs : SubmissionUpdate(u, i, st, gr)
    \/ \E u \in AssignmentUsers, i \in SubmissionIdInputs, gr \in GradeInputs : Grade(u, i, gr)
    \/ \E u \in AssignmentUsers, i \in SubmissionIdInputs : ReturnForRevision(u, i)

SpecAssignments == InitAssignments /\ [][NextAssignments]_vars

====
